---- MODULE Spec2Model ----
(***************************************************************************)
(* A model of firebase-token-helper (src/index.js, the variant with the    *)
(* setup cache, lines 1-262): the CLI driver `main` as a state machine     *)
(* whose steps are the continuations between its await points, and the     *)
(* pure helpers (JSON text, the base64 wrapping, readCache, writeCache,    *)
(* the .firebase scan, initAdmin, the token exchange) as operators.        *)
(*                                                                         *)
(* JavaScript values are modelled as strings; `undefined` is UNDEF.  A     *)
(* JSON text is a sequence of tokens, a file content a sequence of         *)
(* symbols (base64 groups and whitespace).                                 *)
(***************************************************************************)
EXTENDS Naturals, Sequences, FiniteSets, TLC

----------------------------------------------------------------------------
(* JavaScript values *)

UNDEF == "<undefined>"

\* JavaScript truthiness of a string-or-undefined value.
Truthy(v) == v # UNDEF /\ v # ""

\* a || b
Or(a, b) == IF Truthy(a) THEN a ELSE b

\* String.prototype.toLowerCase on the answers the prompt can give.
toLowerCase(s) ==
  CASE s = "Y" -> "y"
    [] s = "YES" -> "yes"
    [] s = "Yes" -> "yes"
    [] s = "N" -> "n"
    [] OTHER -> s

----------------------------------------------------------------------------
(* Objects: a function from field names to values, UNDEF for a field that  *)
(* is absent or undefined (JSON.stringify and property reads do not tell   *)
(* the two apart).                                                         *)

SetupFields == {"uid", "serviceAccount", "apiKey", "projectId", "timestamp"}
TokenFields == {"idToken", "refreshToken", "customToken"}
ResultFields == {"idToken", "refreshToken", "expiresIn", "localId"}
CredFields == {"client_email", "private_key"}
AllFields == SetupFields \cup TokenFields \cup ResultFields \cup CredFields

\* The order in which JSON.stringify emits the keys of the objects built here.
FieldOrder ==
  << "uid", "serviceAccount", "apiKey", "projectId", "timestamp",
     "idToken", "refreshToken", "expiresIn", "localId", "customToken",
     "client_email", "private_key" >>

EmptyObj == [f \in AllFields |-> UNDEF]

\* An object literal { k1: v1, ... } given as a function on some of the fields.
Obj(part) == [f \in AllFields |-> IF f \in DOMAIN part THEN part[f] ELSE UNDEF]

\* delete obj.f
Delete(obj, f) == [obj EXCEPT ![f] = UNDEF]

OwnFields(obj) == {f \in AllFields : obj[f] # UNDEF}

----------------------------------------------------------------------------
(* JSON values and JSON text *)

JObject(o) == [kind |-> "object", obj |-> o, lit |-> ""]
JNull == [kind |-> "null", obj |-> EmptyObj, lit |-> "null"]
JScalar(l) == [kind |-> "scalar", obj |-> EmptyObj, lit |-> l]
\* The outcome "a SyntaxError was thrown".
JThrow == [kind |-> "throw", obj |-> EmptyObj, lit |-> ""]

\* Literals of JSON numbers and booleans that occur in the modelled texts.
ScalarLits == {"123", "0", "true", "false"}
FalsyLits == {"0", "false"}

\* if (value) ...
TruthyJ(j) ==
  CASE j.kind = "object" -> TRUE
    [] j.kind = "scalar" -> j.lit \notin FalsyLits
    [] OTHER -> FALSE

\* value.f : undefined on a number or boolean; on null it throws, which the
\* callers handle before they read a field.
Get(j, f) == IF j.kind = "object" THEN j.obj[f] ELSE UNDEF

Structural == {"{", "}"}

RECURSIVE StringifyFrom(_, _)
StringifyFrom(o, i) ==
  IF i > Len(FieldOrder) THEN << >>
  ELSE LET f == FieldOrder[i] IN
       (IF o[f] = UNDEF THEN << >> ELSE << f, o[f] >>) \o StringifyFrom(o, i + 1)

\* JSON.stringify(obj): keys with an undefined value are left out.
Stringify(o) == << "{" >> \o StringifyFrom(o, 1) \o << "}" >>

\* The value JSON.parse gives field f of a well-formed object text: that of
\* the last occurrence of the key.
LastValue(text, f) ==
  LET ks == {k \in 1..((Len(text) - 2) \div 2) : text[2 * k] = f} IN
  IF ks = {} THEN UNDEF
  ELSE text[2 * (CHOOSE k \in ks : \A k2 \in ks : k2 <= k) + 1]

IsObjectText(text) ==
  /\ Len(text) >= 2
  /\ text[1] = "{"
  /\ text[Len(text)] = "}"
  /\ (Len(text) - 2) % 2 = 0
  /\ \A k \in 1..((Len(text) - 2) \div 2) :
       /\ text[2 * k] \in AllFields
       /\ text[2 * k + 1] \notin Structural
       /\ text[2 * k + 1] # UNDEF

\* JSON.parse(text)
Parse(text) ==
  IF Len(text) = 1 /\ text[1] = "null" THEN JNull
  ELSE IF Len(text) = 1 /\ text[1] \in ScalarLits THEN JScalar(text[1])
  ELSE IF IsObjectText(text) THEN JObject([f \in AllFields |-> LastValue(text, f)])
  ELSE JThrow

----------------------------------------------------------------------------
(* The base64 wrapping of the cache file: every token of the JSON text     *)
(* becomes one base64 group; a file may also hold whitespace.              *)

B64(tok) == << "b64", tok >>
WS == << "ws", " " >>

\* Buffer.from(text, 'utf8').toString('base64')
B64Encode(text) == [i \in 1..Len(text) |-> B64(text[i])]

IsGroup(sym) == sym[1] = "b64"

\* Buffer.from(str, 'base64').toString('utf8'): whitespace is skipped, never throws.
B64Decode(str) ==
  LET groups == SelectSeq(str, IsGroup) IN
  [i \in 1..Len(groups) |-> groups[i][2]]

RECURSIVE TrimLeft(_)
TrimLeft(s) == IF s # << >> /\ Head(s) = WS THEN TrimLeft(Tail(s)) ELSE s

RECURSIVE TrimRight(_)
TrimRight(s) ==
  IF s # << >> /\ s[Len(s)] = WS THEN TrimRight(SubSeq(s, 1, Len(s) - 1)) ELSE s

\* String.prototype.trim
Trim(s) == TrimRight(TrimLeft(s))

----------------------------------------------------------------------------
(* The setup cache (src/index.js 43-80) *)

\* A file: whether it exists, whether it can be read, whether writing it
\* fails (a read-only file or directory), and its content.
NoFile == [exists |-> FALSE, readable |-> FALSE, locked |-> FALSE, data |-> << >>]
File(content) ==
  [exists |-> TRUE, readable |-> TRUE, locked |-> FALSE, data |-> content]
Unreadable(content) == [File(content) EXCEPT !.readable = FALSE]
ReadOnly(content) == [File(content) EXCEPT !.locked = TRUE]
NoFileReadOnlyDir == [NoFile EXCEPT !.locked = TRUE]

encodeSafe(obj) == B64Encode(Stringify(obj))

decodeSafe(str) ==
  LET r == Parse(B64Decode(str)) IN
  IF r.kind = "throw" THEN JNull ELSE r

readCache(file) ==
  IF ~file.exists THEN JNull
  ELSE IF ~file.readable THEN JNull      \* readFileSync throws, caught
  ELSE LET raw == Trim(file.data) IN
       IF raw = << >> THEN JNull ELSE decodeSafe(raw)

\* A variant of the copy that forgets to delete refreshToken.
SafeCopyKeepsRefresh(obj) == Delete(obj, "idToken")

\* The object writeCache encodes: a copy without idToken and refreshToken.
SafeCopy(obj) == Delete(Delete(obj, "idToken"), "refreshToken")

\* The file after writeCache(obj); on a locked file writeFileSync throws,
\* which is swallowed and leaves the file as it was.
writeCache(file, obj) ==
  IF file.locked THEN file ELSE File(encodeSafe(SafeCopy(obj)))

----------------------------------------------------------------------------
(* Paths and the file system the run sees *)

\* process.cwd()
Cwd == "/cwd"

\* path.join(dir, f)
join(dir, f) == dir \o "/" \o f

\* path.resolve(process.cwd(), '.firebase')
candidateDir == join(Cwd, ".firebase")

\* The names of the modelled directory entries: those that end in ".json"
\* and those that do not.
JsonNames == {"a.json", "b.json", "c.json", "d.json", "e.json"}
OtherNames == {"a.txt", "b.txt", "c.txt", "d.txt", "e.txt"}

\* The modelled paths that start with "/".
AbsolutePaths ==
  {"/gac/key.json", "/gac/gone.json", "/cwd/sa.json"}
    \cup {join(candidateDir, n) : n \in JsonNames \cup OtherNames}

\* path.resolve(p): an absolute path is kept, a relative one is put under
\* the working directory.
resolve(p) == IF p \in AbsolutePaths THEN p ELSE join(Cwd, p)

\* f.endsWith('.json')
endsWithJson(entry) == entry.name \in JsonNames

ValidCredText == << "{", "client_email", "sa@proj.iam", "private_key", "PEM", "}" >>
NoKeyCredText == << "{", "client_email", "sa@proj.iam", "}" >>
EmptyEmailCredText == << "{", "client_email", "", "private_key", "PEM", "}" >>
BrokenText == << "{", "client_email" >>
NullText == << "null" >>

\* The .firebase directory: whether it exists (and is a directory) and its
\* entries in listing order, each a name and the text of the file.
NoDir == [exists |-> FALSE, files |-> << >>]
Dir(entries) == [exists |-> TRUE, files |-> entries]
Entry(n, t) == [name |-> n, text |-> t]

\* The files outside .firebase: two good credential files, one that is not
\* JSON; every other path names no file.
FixedFile(path) ==
  CASE path = "/cwd/sa.json" -> File(ValidCredText)
    [] path = "/gac/key.json" -> File(ValidCredText)
    [] path = "/cwd/bad.json" -> File(BrokenText)
    [] path = "/cwd/nokey.json" -> File(NoKeyCredText)
    [] OTHER -> NoFile

InDir(dir, path) ==
  {i \in 1..Len(dir.files) : join(candidateDir, dir.files[i].name) = path}

\* The file a path names.
FileAt(dir, path) ==
  IF dir.exists /\ InDir(dir, path) # {}
    THEN File(dir.files[CHOOSE i \in InDir(dir, path) : TRUE].text)
    ELSE FixedFile(path)

\* fs.existsSync(path)
existsSync(dir, path) == FileAt(dir, path).exists

\* require(full) of a .json file: the parsed content, or a thrown error.
require(dir, full) ==
  LET f == FileAt(dir, full) IN
  IF f.exists /\ f.readable THEN Parse(f.data) ELSE JThrow

----------------------------------------------------------------------------
(* The .firebase scan (src/index.js 116-132 and 218-225) *)

\* The test of one candidate: the JSON.parse in the try block, then the
\* heuristic; a parse error, and the TypeError of reading a field of null,
\* are caught and the file is skipped.
IsServiceAccount(entry) ==
  LET content == Parse(entry.text) IN
  /\ content.kind \notin {"throw", "null"}
  /\ Truthy(Get(content, "client_email"))
  /\ Truthy(Get(content, "private_key"))

\* A variant of the loop without the break: the last match wins.
RECURSIVE PickLoopLast(_, _)
PickLoopLast(files, i) ==
  IF i > Len(files) THEN UNDEF
  ELSE LET later == PickLoopLast(files, i + 1) IN
       IF Truthy(later) THEN later
       ELSE IF IsServiceAccount(files[i]) THEN join(candidateDir, files[i].name)
       ELSE UNDEF

\* for (const f of files) { ... if (...) { picked = full; break; } }
RECURSIVE PickLoop(_, _)
PickLoop(files, i) ==
  IF i > Len(files) THEN UNDEF
  ELSE IF IsServiceAccount(files[i]) THEN join(candidateDir, files[i].name)
  ELSE PickLoop(files, i + 1)

\* The value of `picked` after the scan: a path, or UNDEF for null.
Scan(dir) ==
  IF dir.exists THEN PickLoop(SelectSeq(dir.files, endsWithJson), 1) ELSE UNDEF

\* The paths the scan reads.
ScanReads(dir) ==
  IF dir.exists
    THEN {join(candidateDir, dir.files[i].name) : i \in 1..Len(dir.files)}
    ELSE {}

----------------------------------------------------------------------------
(* initAdmin (src/index.js 100-148) *)

NoOptions == [credential |-> "none", path |-> UNDEF, projectId |-> UNDEF]

\* What admin.credential.cert(sa) needs of the parsed file to accept it.
CertAccepts(sa) ==
  /\ sa.kind = "object"
  /\ Truthy(sa.obj["client_email"])
  /\ Truthy(sa.obj["private_key"])

InitThrew(msg, looked) ==
  [threw |-> TRUE, message |-> msg, options |-> NoOptions, inspected |-> looked]

InitDone(cred, p, projectId, looked) ==
  [threw |-> FALSE, message |-> "",
   options |-> [credential |-> cred, path |-> p, projectId |-> projectId],
   inspected |-> looked]

\* options = { credential: admin.credential.cert(require(full)) }, then the
\* projectId and admin.initializeApp(options).  sdkOk = FALSE is the SDK
\* rejecting the credential or the options.
CertBranch(dir, full, projectId, sdkOk, looked) ==
  LET sa == require(dir, full) IN
  IF sa.kind = "throw" THEN InitThrew("Cannot parse " \o full, looked)
  ELSE IF ~CertAccepts(sa) \/ ~sdkOk
    THEN InitThrew("Firebase Admin SDK rejected " \o full, looked)
  ELSE InitDone("cert", full, projectId, looked)

\* A variant of the explicit-path branch without the existence check.
ExplicitPathUnchecked(dir, full, projectId, sdkOk) ==
  CertBranch(dir, full, projectId, sdkOk, {full})

\* Lines 105-109: the branch for a given path.
ExplicitPath(dir, full, projectId, sdkOk) ==
  IF ~existsSync(dir, full)
    THEN InitThrew("Service account file not found: " \o full, {full})
    ELSE CertBranch(dir, full, projectId, sdkOk, {full})

\* initAdmin(serviceAccountPath) with argv.projectId and the environment as
\* they are at the call; the result is what it threw or the options it
\* passed to initializeApp, and the paths it looked at on the way.
initAdmin(serviceAccountPath, argvProject, environ, dir, sdkOk) ==
  LET projectId == Or(argvProject, environ.FIREBASE_PROJECT_ID) IN
  IF Truthy(serviceAccountPath)
    THEN ExplicitPath(dir, resolve(serviceAccountPath), projectId, sdkOk)
  ELSE IF Truthy(environ.GOOGLE_APPLICATION_CREDENTIALS) THEN
    IF sdkOk THEN InitDone("applicationDefault", UNDEF, projectId, {})
    ELSE InitThrew("Firebase Admin SDK rejected the default credential", {})
  ELSE IF dir.exists THEN
    LET picked == Scan(dir) IN
    IF Truthy(picked)
      THEN CertBranch(dir, picked, projectId, sdkOk, ScanReads(dir))
      ELSE InitThrew("No service account found. Place a service account JSON in .firebase/ or pass --serviceAccount or set GOOGLE_APPLICATION_CREDENTIALS env var.",
                     ScanReads(dir))
  ELSE InitThrew("No service account provided. Pass --serviceAccount or set GOOGLE_APPLICATION_CREDENTIALS env var, or put a service account JSON into .firebase/",
                 {})

----------------------------------------------------------------------------
(* The token exchange (src/index.js 154-176) *)

\* encodeURIComponent on the modelled keys.
encodeURIComponent(s) ==
  CASE s = "k&4" -> "k%264"
    [] OTHER -> s

ExchangeUrl(key) ==
  "https://identitytoolkit.googleapis.com/v1/accounts:signInWithCustomToken?key="
    \o encodeURIComponent(key)

\* The POST that _fetch issues.
Request(customToken, key) ==
  [url |-> ExchangeUrl(key), method |-> "POST",
   contentType |-> "application/json",
   token |-> customToken, returnSecureToken |-> TRUE]

\* A response body: its top-level string fields and its `error` member.
NoError == [present |-> FALSE, message |-> UNDEF]
ErrorMember(m) == [present |-> TRUE, message |-> m]
Body(o, e) == [obj |-> o, error |-> e]
Response(st, b) == [status |-> st, data |-> b]
NoResponse == Response(0, Body(EmptyObj, NoError))

\* A variant of res.ok that takes 200 itself for a failure (an off-by-one in
\* the range test).
okAbove200(res) == res.status > 200 /\ res.status <= 299

\* res.ok
ok(res) == res.status >= 200 /\ res.status <= 299

RECURSIVE Concat(_)
Concat(toks) == IF toks = << >> THEN "" ELSE Head(toks) \o Concat(Tail(toks))

\* JSON.stringify(data) of a response body, as one string.
StringifyBody(data) ==
  Concat(<< "{" >> \o StringifyFrom(data.obj, 1)
         \o (IF data.error.present
               THEN << "error:{" >>
                    \o (IF data.error.message = UNDEF THEN << >>
                        ELSE << "message:", data.error.message >>)
                    \o << "}" >>
               ELSE << >>)
         \o << "}" >>)

\* A variant of the message extraction that always reports the whole body.
ErrorDetailWholeBody(data) == StringifyBody(data)

\* data && data.error && data.error.message ? data.error.message : JSON.stringify(data)
ErrorDetail(data) ==
  IF data.error.present /\ Truthy(data.error.message)
    THEN data.error.message
    ELSE StringifyBody(data)

\* The message of the Error thrown on a response that is not ok.
ExchangeFailure(data) == "Failed to exchange custom token: " \o ErrorDetail(data)

\* A variant of the key check that never fires (the guard left out).
MissingKeyUnchecked(key) == FALSE

\* if (!apiKey) throw ...
MissingKey(key) == ~Truthy(key)

NeedApiKey ==
  "Need Firebase Web API key to exchange custom token for ID token (FIREBASE_API_KEY or --apiKey)"

----------------------------------------------------------------------------
(* The run of the CLI driver (src/index.js 178-258) *)

VARIABLES
  flags,          \* the parsed command line: uid, serviceAccount, apiKey, projectId
  env,            \* process.env: the three variables the program reads
  cacheFile,      \* .token-helper-cache
  cacheAtStart,   \* the cache file as the run found it
  firebaseDir,    \* the .firebase directory
  pc,             \* where main is
  uid, serviceAccount, apiKey,   \* main's locals
  argvProjectId,  \* argv.projectId, which main overwrites from the cache
  cache,          \* what readCache returned
  prompts,        \* the questions asked on the terminal, in order
  console,        \* the lines written to stdout and stderr, in order
  exitCode,       \* the code the process ended with (read it when pc = "END")
  failure,        \* the step whose error ended the run, and the error's message
  admin,          \* the Admin SDK: initialised apps and the options they got
  inspected,      \* the credential paths the program itself looked at
  mintCalls,      \* the uids passed to createCustomToken
  customToken,
  posts,          \* the HTTP POSTs issued
  response,       \* the answer to the POST
  writes          \* the calls of writeCache

vars ==
  << flags, env, cacheFile, cacheAtStart, firebaseDir, pc, uid, serviceAccount,
     apiKey, argvProjectId, cache, prompts, console, exitCode, failure, admin,
     inspected, mintCalls, customToken, posts, response, writes >>

\* process.exit(1), process.exit(2), process.exit(3)
ExitNoUid == 1
ExitInitFailed == 2
ExitRunFailed == 3

NoFailure == [step |-> "none", message |-> ""]
Failure(s, m) == [step |-> s, message |-> m]

\* The answers an operator can type at each prompt (already trimmed).
LoadAnswers == {"", "y", "YES", "n"}
UidAnswers == {"", "u2"}
KeyAnswers == {"", "k&4"}
PathAnswers == {"", "sa.json", "missing.json"}

\* Date.now()
Clock == {"1762200000000", "1762300000000"}

\* new Date(ts).toLocaleString()
DateString(ts) == IF ts = UNDEF THEN "Invalid Date" ELSE "date " \o ts

LoadQuestion(c) ==
  "Found saved setup from " \o DateString(Get(c, "timestamp")) \o ". Load it? (y/N): "
UidQuestion == "Enter UID to mint token for: "
KeyQuestion == "Enter Firebase Web API key (or press Enter to leave empty): "
PathQuestion ==
  "Service account path not found. Enter path to service account JSON (or press Enter to abort): "

\* The answers of the identity-toolkit endpoint.
TokenBody(u) ==
  Body(Obj([idToken |-> "id." \o u, refreshToken |-> "rt." \o u,
            expiresIn |-> "3600", localId |-> u]), NoError)

Responses(u) ==
  { Response(200, TokenBody(u)),
    Response(400, Body(EmptyObj, ErrorMember("INVALID_CUSTOM_TOKEN"))),
    Response(400, Body(EmptyObj, ErrorMember("CREDENTIAL_MISMATCH"))),
    Response(500, Body(EmptyObj, ErrorMember(UNDEF))),
    Response(400, Body(EmptyObj, ErrorMember(""))),
    Response(503, Body(EmptyObj, NoError)) }

\* argv.uid || argv.serviceAccount || argv.apiKey || argv.projectId
anyFlag ==
  Truthy(Or(Or(Or(flags.uid, flags.serviceAccount), flags.apiKey), flags.projectId))

\* The terminal state of a run that failed.
Exit(code, step, msg, line) ==
  /\ pc' = "END"
  /\ exitCode' = code
  /\ failure' = Failure(step, msg)
  /\ console' = Append(console, line)

\* Lines 180-188: the locals from the flags and the environment, the cache read.
Start ==
  /\ pc = "start"
  /\ uid' = flags.uid
  /\ serviceAccount' = Or(flags.serviceAccount, env.GOOGLE_APPLICATION_CREDENTIALS)
  /\ apiKey' = Or(flags.apiKey, env.FIREBASE_API_KEY)
  /\ cache' = readCache(cacheFile)
  /\ pc' = IF TruthyJ(readCache(cacheFile)) /\ ~anyFlag THEN "askLoad" ELSE "resolveUid"
  /\ UNCHANGED << flags, env, cacheFile, cacheAtStart, firebaseDir, argvProjectId,
                  prompts, console, exitCode, failure, admin, inspected, mintCalls,
                  customToken, posts, response, writes >>

\* Lines 189-196: the offer to load the cache.
AskLoad ==
  /\ pc = "askLoad"
  /\ \E load \in LoadAnswers :
       /\ prompts' = Append(prompts, LoadQuestion(cache))
       /\ IF toLowerCase(load) = "y" \/ toLowerCase(load) = "yes"
            THEN /\ uid' = Or(uid, Get(cache, "uid"))
                 /\ serviceAccount' = Or(serviceAccount, Get(cache, "serviceAccount"))
                 /\ apiKey' = Or(apiKey, Get(cache, "apiKey"))
                 /\ argvProjectId' = Or(argvProjectId, Get(cache, "projectId"))
                 /\ console' = Append(console, << "log", "Loaded cached setup." >>)
            ELSE UNCHANGED << uid, serviceAccount, apiKey, argvProjectId, console >>
  /\ pc' = "resolveUid"
  /\ UNCHANGED << flags, env, cacheFile, cacheAtStart, firebaseDir, cache, exitCode,
                  failure, admin, inspected, mintCalls, customToken, posts, response,
                  writes >>

\* Lines 200-206.
ResolveUid ==
  /\ pc = "resolveUid"
  /\ IF Truthy(uid)
       THEN /\ pc' = "resolveApiKey"
            /\ UNCHANGED << uid, prompts, console, exitCode, failure >>
       ELSE \E answer \in UidAnswers :
              /\ prompts' = Append(prompts, UidQuestion)
              /\ uid' = answer
              /\ IF Truthy(answer)
                   THEN /\ pc' = "resolveApiKey"
                        /\ UNCHANGED << console, exitCode, failure >>
                   ELSE Exit(ExitNoUid, "uid", "No UID provided, aborting.",
                             << "error", "No UID provided, aborting." >>)
  /\ UNCHANGED << flags, env, cacheFile, cacheAtStart, firebaseDir, serviceAccount,
                  apiKey, argvProjectId, cache, admin, inspected, mintCalls,
                  customToken, posts, response, writes >>

\* Lines 208-211.
ResolveApiKey ==
  /\ pc = "resolveApiKey"
  /\ IF Truthy(apiKey)
       THEN UNCHANGED << apiKey, prompts >>
       ELSE \E maybe \in KeyAnswers :
              /\ prompts' = Append(prompts, KeyQuestion)
              /\ apiKey' = IF Truthy(maybe) THEN maybe ELSE apiKey
  /\ pc' = "resolveCredential"
  /\ UNCHANGED << flags, env, cacheFile, cacheAtStart, firebaseDir, uid,
                  serviceAccount, argvProjectId, cache, console, exitCode, failure,
                  admin, inspected, mintCalls, customToken, posts, response, writes >>

\* Lines 214-234: the scan of .firebase, then the prompt for a path.
ResolveCredential ==
  /\ pc = "resolveCredential"
  /\ IF Truthy(serviceAccount)
       THEN UNCHANGED << serviceAccount, prompts, console, inspected >>
       ELSE LET picked == Scan(firebaseDir) IN
            /\ inspected' = inspected \cup ScanReads(firebaseDir)
            /\ IF Truthy(picked)
                 THEN /\ serviceAccount' = picked
                      /\ console' = Append(console,
                           << "log", "Auto-detected service account:", picked >>)
                      /\ UNCHANGED prompts
                 ELSE \E ans \in PathAnswers :
                        /\ prompts' = Append(prompts, PathQuestion)
                        /\ serviceAccount' = IF Truthy(ans) THEN ans ELSE serviceAccount
                        /\ UNCHANGED console
  /\ pc' = "initAdmin"
  /\ UNCHANGED << flags, env, cacheFile, cacheAtStart, firebaseDir, uid, apiKey,
                  argvProjectId, cache, exitCode, failure, admin, mintCalls,
                  customToken, posts, response, writes >>

\* Lines 236-241: await initAdmin(serviceAccount), and its catch.
InitAdmin ==
  /\ pc = "initAdmin"
  /\ IF admin.apps > 0
       THEN /\ pc' = "mint"
            /\ UNCHANGED << admin, inspected, console, exitCode, failure >>
       ELSE \E sdkOk \in BOOLEAN :
              LET r == initAdmin(serviceAccount, argvProjectId, env, firebaseDir, sdkOk) IN
              /\ inspected' = inspected \cup r.inspected
              /\ IF r.threw
                   THEN /\ Exit(ExitInitFailed, "init", r.message,
                                << "error", "Failed to initialize Firebase Admin:",
                                   r.message >>)
                        /\ UNCHANGED admin
                   ELSE /\ admin' = [apps |-> 1, options |-> r.options]
                        /\ pc' = "mint"
                        /\ UNCHANGED << console, exitCode, failure >>
  /\ UNCHANGED << flags, env, cacheFile, cacheAtStart, firebaseDir, uid,
                  serviceAccount, apiKey, argvProjectId, cache, prompts, mintCalls,
                  customToken, posts, response, writes >>

\* The token the Admin SDK signs for a uid.
Signed(u) == "ct." \o u

\* A variant of the catch of lines 254-257 that exits like the catch around
\* initAdmin (code 2 for a minting or exchange failure).
CatchRunAsInit(step, msg) ==
  Exit(ExitInitFailed, step, msg, << "error", "Error:", msg >>)

\* The catch of lines 254-257.
CatchRun(step, msg) ==
  Exit(ExitRunFailed, step, msg, << "error", "Error:", msg >>)

\* Line 244: createCustomToken(uid) is called; the SDK goes to the network.
Mint ==
  /\ pc = "mint"
  /\ mintCalls' = Append(mintCalls, uid)
  /\ pc' = "awaitMint"
  /\ UNCHANGED << flags, env, cacheFile, cacheAtStart, firebaseDir, uid,
                  serviceAccount, apiKey, argvProjectId, cache, prompts, console,
                  exitCode, failure, admin, inspected, customToken, posts, response,
                  writes >>

\* Lines 244-247 and 155: the SDK answers; on success the token is printed and
\* exchangeCustomTokenForIdToken starts with its check of the key.
MintDone ==
  /\ pc = "awaitMint"
  /\ \E minted \in BOOLEAN :
       IF ~minted
         THEN /\ CatchRun("mint", "Firebase Admin SDK could not sign the token")
              /\ UNCHANGED customToken
         ELSE /\ customToken' = Signed(uid)
              /\ IF MissingKey(apiKey)
                   THEN CatchRun("exchange", NeedApiKey)
                   ELSE /\ pc' = "fetch"
                        /\ console' = Append(console,
                             << "log", "Custom token created:", Signed(uid) >>)
                        /\ UNCHANGED << exitCode, failure >>
  /\ UNCHANGED << flags, env, cacheFile, cacheAtStart, firebaseDir, uid,
                  serviceAccount, apiKey, argvProjectId, cache, prompts, admin,
                  inspected, mintCalls, posts, response, writes >>

\* Lines 157-168: the POST to the identity-toolkit endpoint.
Fetch ==
  /\ pc = "fetch"
  /\ posts' = Append(posts, Request(customToken, apiKey))
  /\ pc' = "awaitFetch"
  /\ UNCHANGED << flags, env, cacheFile, cacheAtStart, firebaseDir, uid,
                  serviceAccount, apiKey, argvProjectId, cache, prompts, console,
                  exitCode, failure, admin, inspected, mintCalls, customToken,
                  response, writes >>

\* A call of writeCache: the object passed, and whether the file was written.
WriteCall(o, done) == [obj |-> o, written |-> done]

\* The object main passes to writeCache (line 252).
SetupToSave(now) ==
  Obj([uid |-> uid, serviceAccount |-> serviceAccount, apiKey |-> apiKey,
       projectId |-> Or(argvProjectId, env.FIREBASE_PROJECT_ID),
       timestamp |-> now])

\* A variant of lines 245-253 in which writeCache is reached whether or not
\* the exchange threw.
SavedWhateverExchange(file, res, obj) == writeCache(file, obj)

\* Lines 248-253: the cache file after the try block. A throw of
\* exchangeCustomTokenForIdToken (line 173) skips writeCache (line 252).
SavedAfterExchange(file, res, obj) ==
  IF ok(res) THEN writeCache(file, obj) ELSE file

\* Lines 170-175 and 248-253: the answer arrives; a failure is thrown and
\* caught, a success is printed and the setup is saved.
FetchDone ==
  /\ pc = "awaitFetch"
  /\ \E res \in Responses(uid), now \in Clock :
       /\ response' = res
       /\ cacheFile' = SavedAfterExchange(cacheFile, res, SetupToSave(now))
       /\ IF ~ok(res)
            THEN /\ CatchRun("exchange", ExchangeFailure(res.data))
                 /\ UNCHANGED writes
            ELSE /\ console' = console \o
                      << << "log", "Exchanged token result:" >>,
                         << "log", StringifyBody(res.data) >> >>
                 /\ writes' = Append(writes,
                      WriteCall(SetupToSave(now), ~cacheFile.locked))
                 /\ pc' = "END"
                 /\ UNCHANGED << exitCode, failure >>
  /\ UNCHANGED << flags, env, cacheAtStart, firebaseDir, uid, serviceAccount,
                  apiKey, argvProjectId, cache, prompts, admin, inspected,
                  mintCalls, customToken, posts >>

----------------------------------------------------------------------------
(* The states a run can start in *)

FlagSets ==
  [uid : {UNDEF, "u1"},
   serviceAccount : {UNDEF, "sa.json", "missing.json", "bad.json"},
   apiKey : {UNDEF, "k1"},
   projectId : {UNDEF, "p1"}]

Environments ==
  [GOOGLE_APPLICATION_CREDENTIALS : {UNDEF, "/gac/key.json", "/gac/gone.json"},
   FIREBASE_API_KEY : {UNDEF, "k2"},
   FIREBASE_PROJECT_ID : {UNDEF, "p2"}]

\* A setup saved by an earlier run, and one that holds a uid only.
SavedSetup ==
  Obj([uid |-> "u3", serviceAccount |-> "sa.json", apiKey |-> "k3",
       projectId |-> "p3", timestamp |-> "1762100000000"])
SavedUid == Obj([uid |-> "u3"])

CacheFiles ==
  { NoFile,
    File(<< >>),
    File(<< WS, WS >>),
    File(encodeSafe(SavedSetup)),
    File(<< WS >> \o encodeSafe(SavedSetup) \o << WS >>),
    File(encodeSafe(SavedUid)),
    File(SubSeq(encodeSafe(SavedSetup), 1, 5)),
    File(B64Encode(<< "123" >>)),
    File(B64Encode(<< "0" >>)),
    File(B64Encode(<< "null" >>)),
    Unreadable(encodeSafe(SavedSetup)),
    ReadOnly(encodeSafe(SavedSetup)),
    NoFileReadOnlyDir }

FirebaseDirs ==
  { NoDir,
    Dir(<< >>),
    Dir(<< Entry("a.json", ValidCredText) >>),
    Dir(<< Entry("a.txt", ValidCredText), Entry("b.json", BrokenText),
           Entry("c.json", NoKeyCredText), Entry("d.json", ValidCredText),
           Entry("e.json", ValidCredText) >>),
    Dir(<< Entry("a.json", EmptyEmailCredText), Entry("b.json", NullText) >>) }

InitRun ==
  /\ uid = UNDEF /\ serviceAccount = UNDEF /\ apiKey = UNDEF
  /\ argvProjectId = flags.projectId
  /\ cacheAtStart = cacheFile
  /\ cache = JNull
  /\ prompts = << >> /\ console = << >>
  /\ exitCode = 0
  /\ failure = NoFailure
  /\ admin = [apps |-> 0, options |-> NoOptions]
  /\ inspected = {}
  /\ mintCalls = << >> /\ customToken = UNDEF
  /\ posts = << >> /\ response = NoResponse
  /\ writes = << >>

Init ==
  /\ flags \in FlagSets
  /\ env \in Environments
  /\ cacheFile \in CacheFiles
  /\ firebaseDir \in FirebaseDirs
  /\ pc = "start"
  /\ InitRun

Next ==
  \/ Start
  \/ AskLoad
  \/ ResolveUid
  \/ ResolveApiKey
  \/ ResolveCredential
  \/ InitAdmin
  \/ Mint
  \/ MintDone
  \/ Fetch
  \/ FetchDone

Spec == Init /\ [][Next]_vars

----------------------------------------------------------------------------
(* Runs over every .firebase listing of bounded length *)

\* The longest listing.
MaxFiles == 3

JsonNameAt == << "a.json", "b.json", "c.json", "d.json", "e.json" >>
OtherNameAt == << "a.txt", "b.txt", "c.txt", "d.txt", "e.txt" >>

CredTexts ==
  {ValidCredText, NoKeyCredText, EmptyEmailCredText, BrokenText, NullText}

\* The entries a listing can have at place i.
EntriesAt(i) ==
  {Entry(n, t) : n \in {JsonNameAt[i], OtherNameAt[i]}, t \in CredTexts}

RECURSIVE ListingsOf(_)
ListingsOf(k) ==
  IF k = 0 THEN {<< >>}
  ELSE {Append(l, e) : l \in ListingsOf(k - 1), e \in EntriesAt(k)}

AllListings == UNION {ListingsOf(k) : k \in 0..MaxFiles}

NoFlags == [uid |-> UNDEF, serviceAccount |-> UNDEF, apiKey |-> UNDEF,
            projectId |-> UNDEF]

\* Runs that reach the scan: no credential path from a flag or the
\* environment, any listing.
InitDetect ==
  /\ flags \in {NoFlags, [NoFlags EXCEPT !.uid = "u1"]}
  /\ env = [GOOGLE_APPLICATION_CREDENTIALS |-> UNDEF, FIREBASE_API_KEY |-> "k2",
            FIREBASE_PROJECT_ID |-> UNDEF]
  /\ cacheFile \in {NoFile, File(encodeSafe(SavedUid))}
  /\ firebaseDir \in {NoDir} \cup {Dir(l) : l \in AllListings}
  /\ pc = "start"
  /\ InitRun

SpecDetect == InitDetect /\ [][Next]_vars

----------------------------------------------------------------------------
(* The cache functions on their own: writeCache applied to any object,     *)
(* readCache applied to the file it leaves.                                *)

SampleValue(f) == "v." \o f

\* The objects over the setup and token fields.
AnyObjects ==
  {Obj([f \in present |-> SampleValue(f)]) :
     present \in SUBSET (SetupFields \cup TokenFields)}

CallWrite ==
  /\ pc \in {"idle", "written", "read"}
  /\ \E o \in AnyObjects :
       /\ cacheFile' = writeCache(cacheFile, o)
       /\ writes' = << WriteCall(o, ~cacheFile.locked) >>
  /\ cache' = JNull          \* what was read before the write is dropped
  /\ pc' = "written"
  /\ UNCHANGED << flags, env, cacheAtStart, firebaseDir, uid, serviceAccount,
                  apiKey, argvProjectId, prompts, console, exitCode,
                  failure, admin, inspected, mintCalls, customToken, posts,
                  response >>

CallRead ==
  /\ pc \in {"idle", "written"}
  /\ cache' = readCache(cacheFile)
  /\ pc' = "read"
  /\ UNCHANGED << flags, env, cacheFile, cacheAtStart, firebaseDir, uid,
                  serviceAccount, apiKey, argvProjectId, prompts, console,
                  exitCode, failure, admin, inspected, mintCalls, customToken,
                  posts, response, writes >>

InitCache ==
  /\ flags = NoFlags
  /\ env = [GOOGLE_APPLICATION_CREDENTIALS |-> UNDEF, FIREBASE_API_KEY |-> UNDEF,
            FIREBASE_PROJECT_ID |-> UNDEF]
  /\ cacheFile \in CacheFiles
  /\ firebaseDir = NoDir
  /\ pc = "idle"
  /\ InitRun

NextCache == CallWrite \/ CallRead

SpecCache == InitCache /\ [][NextCache]_vars

----------------------------------------------------------------------------
(* What a finished run shows *)

Ended == pc = "END"

Printed(line) == \E i \in 1..Len(console) : console[i] = line

Asked(question) == \E i \in 1..Len(prompts) : prompts[i] = question

\* The run took the offer to load the cache.
Loaded == Printed(<< "log", "Loaded cached setup." >>)

\* The endpoint was reached and answered.
Answered == posts # << >> /\ response # NoResponse

----------------------------------------------------------------------------
(* C1 *)

\* C1: a run in which the exchange endpoint answers HTTP 200 ends with exit
\* code 0, reports no error, and prints the exchange result object, which
\* contains idToken, refreshToken, expiresIn and localId.
C1_SuccessExitsZeroAndPrintsResult ==
  (Ended /\ Answered /\ response.status = 200) =>
     /\ exitCode = 0
     /\ failure = NoFailure
     /\ Printed(<< "log", "Exchanged token result:" >>)
     /\ console[Len(console)] = << "log", StringifyBody(response.data) >>
     /\ ResultFields \subseteq OwnFields(response.data.obj)

C1_Witness ==
  /\ Ended /\ Answered /\ response.status = 200
  /\ exitCode = 0
  /\ Truthy(uid) /\ admin.apps = 1 /\ admin.options.credential = "cert"

----------------------------------------------------------------------------
(* C2 *)

\* What ran after each step of the pipeline.
NothingAfterUid ==
  /\ ~Asked(KeyQuestion) /\ ~Asked(PathQuestion)
  /\ inspected = {} /\ admin.apps = 0
NothingAfterInit == mintCalls = << >> /\ customToken = UNDEF
NothingAfterMint == posts = << >> /\ response = NoResponse
NothingAfterExchange == writes = << >> /\ cacheFile = cacheAtStart

\* C2: a run that hits an error ends at once with the exit code of the step
\* that failed and runs no later step: 1 when no identifier is supplied, 2
\* when the administrative initialization fails, 3 when minting or the
\* exchange fails; a run without error exits 0.
C2_ExitCodeOfFailingStep ==
  /\ failure # NoFailure => Ended
  /\ Ended =>
       /\ exitCode \in {0, ExitNoUid, ExitInitFailed, ExitRunFailed}
       /\ exitCode = ExitNoUid <=> ~Truthy(uid)
       /\ exitCode = ExitNoUid =>
            /\ failure.step = "uid"
            /\ NothingAfterUid /\ NothingAfterInit /\ NothingAfterMint
            /\ NothingAfterExchange
       /\ exitCode = ExitInitFailed <=> (Truthy(uid) /\ admin.apps = 0)
       /\ exitCode = ExitInitFailed =>
            /\ failure.step = "init"
            /\ NothingAfterInit /\ NothingAfterMint /\ NothingAfterExchange
       /\ exitCode = ExitRunFailed <=> (admin.apps = 1 /\ ~(Answered /\ ok(response)))
       /\ (exitCode = ExitRunFailed /\ customToken = UNDEF) =>
            /\ failure.step = "mint"
            /\ NothingAfterMint /\ NothingAfterExchange
       /\ (exitCode = ExitRunFailed /\ customToken # UNDEF) =>
            /\ failure.step = "exchange"
            /\ NothingAfterExchange
       /\ exitCode = 0 <=> failure = NoFailure
       /\ exitCode = 0 => (Answered /\ ok(response) /\ Len(writes) = 1)

C2_Witness ==
  /\ Ended /\ exitCode = ExitRunFailed /\ failure.step = "mint"
  /\ mintCalls # << >> /\ posts = << >>

----------------------------------------------------------------------------
(* C3 *)

\* The API key the run resolved from the flag, the environment, the cache
\* and the prompt is absent.
NoKeyResolved ==
  /\ pc \notin {"start", "askLoad", "resolveUid", "resolveApiKey"}
  /\ ~Truthy(apiKey)

\* C3: in a run where no API key is resolvable from the flag, the
\* environment, the loaded cache or the prompt, no HTTP POST is ever issued,
\* and once the token is minted the exchange fails with the missing-key error.
C3_NoKeyNoPost ==
  NoKeyResolved =>
     /\ posts = << >>
     /\ pc \notin {"fetch", "awaitFetch"}
     /\ (Ended /\ customToken # UNDEF) =>
           /\ failure = Failure("exchange", NeedApiKey)
           /\ exitCode = ExitRunFailed

C3_Witness ==
  /\ Ended /\ NoKeyResolved /\ customToken # UNDEF
  /\ Asked(KeyQuestion) /\ posts = << >>

----------------------------------------------------------------------------
(* C4 *)

\* The endpoint answered with a failure status and a body whose error
\* member carries a message.
AnsweredWithErrorMessage ==
  /\ Ended /\ Answered /\ ~ok(response)
  /\ response.data.error.present
  /\ Truthy(response.data.error.message)

\* C4 as stated: on a non-success answer with a nested error message m, the
\* error message the run reports equals m exactly, and the exit code is 3.
C4_ReportedMessageIsNested ==
  AnsweredWithErrorMessage =>
     /\ failure.message = response.data.error.message
     /\ exitCode = ExitRunFailed

\* C4, amended: on a non-success answer with a nested, non-empty error
\* message m, the error message the run reports is "Failed to exchange
\* custom token: " followed by m, it is the last line printed, and the exit
\* code is 3.
C4_ReportedMessageIsPrefixedNested ==
  AnsweredWithErrorMessage =>
     /\ failure = Failure("exchange",
          "Failed to exchange custom token: " \o response.data.error.message)
     /\ console[Len(console)] = << "error", "Error:", failure.message >>
     /\ exitCode = ExitRunFailed

C4_Witness ==
  /\ AnsweredWithErrorMessage
  /\ response.status = 400
  /\ response.data.error.message = "INVALID_CUSTOM_TOKEN"
  /\ failure.message = "Failed to exchange custom token: INVALID_CUSTOM_TOKEN"

----------------------------------------------------------------------------
(* C5 *)

\* The run was started with --serviceAccount naming a file that does not exist.
FlagNamesMissingFile ==
  /\ Truthy(flags.serviceAccount)
  /\ ~existsSync(firebaseDir, resolve(flags.serviceAccount))

NotFound(p) == "Service account file not found: " \o resolve(p)

NoNetworkCall == mintCalls = << >> /\ posts = << >>

\* C5 as stated: every run started with --serviceAccount naming a missing
\* file ends with exit code 2 and a message naming the path, without a
\* network call, whatever the other inputs are.
C5_MissingFileAlwaysExitsTwo ==
  (Ended /\ FlagNamesMissingFile) =>
     /\ exitCode = ExitInitFailed
     /\ failure.message = NotFound(flags.serviceAccount)
     /\ NoNetworkCall

\* C5, amended: a run started with --serviceAccount naming a missing file
\* never makes a network call; when an identifier is supplied (flag or
\* prompt) it ends with exit code 2 and the message naming the resolved
\* path, and when none is supplied it ends with exit code 1 before the
\* credential is looked at.
C5_MissingFileExitsTwoGivenUid ==
  FlagNamesMissingFile =>
     /\ NoNetworkCall
     /\ admin.apps = 0
     /\ Ended =>
          IF Truthy(uid)
            THEN /\ exitCode = ExitInitFailed
                 /\ failure = Failure("init", NotFound(flags.serviceAccount))
                 /\ console[Len(console)] =
                      << "error", "Failed to initialize Firebase Admin:",
                         NotFound(flags.serviceAccount) >>
            ELSE /\ exitCode = ExitNoUid
                 /\ inspected = {}

C5_Witness ==
  /\ Ended /\ FlagNamesMissingFile
  /\ flags.serviceAccount = "missing.json"
  /\ exitCode = ExitInitFailed
  /\ failure.message = "Service account file not found: /cwd/missing.json"

----------------------------------------------------------------------------
(* C6 *)

FlagOrEnvKey == Or(flags.apiKey, env.FIREBASE_API_KEY)
FlagOrEnvPath == Or(flags.serviceAccount, env.GOOGLE_APPLICATION_CREDENTIALS)
FlagOrEnvProject == Or(flags.projectId, env.FIREBASE_PROJECT_ID)

\* The identifier, the API key and the credential path the run uses follow
\* flag, environment, cache, prompt.
PrecedenceOfUidKeyPath ==
  /\ Loaded => ~anyFlag
  /\ mintCalls # << >> =>
       mintCalls[1] =
         IF Truthy(flags.uid) THEN flags.uid
         ELSE IF Loaded /\ Truthy(Get(cache, "uid")) THEN Get(cache, "uid")
         ELSE uid
  /\ (mintCalls # << >> /\ Asked(UidQuestion)) =>
       ~Truthy(flags.uid) /\ ~(Loaded /\ Truthy(Get(cache, "uid")))
  /\ posts # << >> =>
       posts[1].url =
         ExchangeUrl(IF Truthy(FlagOrEnvKey) THEN FlagOrEnvKey
                     ELSE IF Loaded /\ Truthy(Get(cache, "apiKey"))
                            THEN Get(cache, "apiKey")
                     ELSE apiKey)
  /\ Asked(KeyQuestion) =>
       ~Truthy(FlagOrEnvKey) /\ ~(Loaded /\ Truthy(Get(cache, "apiKey")))
  /\ (admin.apps = 1 /\ admin.options.credential = "cert") =>
       admin.options.path =
         resolve(IF Truthy(FlagOrEnvPath) THEN FlagOrEnvPath
                 ELSE IF Loaded /\ Truthy(Get(cache, "serviceAccount"))
                        THEN Get(cache, "serviceAccount")
                 ELSE serviceAccount)
  /\ Asked(PathQuestion) =>
       ~Truthy(FlagOrEnvPath) /\ ~(Loaded /\ Truthy(Get(cache, "serviceAccount")))

\* The project id the run uses follows flag, environment, cache.
PrecedenceOfProject ==
  admin.apps = 1 =>
     admin.options.projectId =
       IF Truthy(FlagOrEnvProject) THEN FlagOrEnvProject
       ELSE IF Loaded THEN Get(cache, "projectId")
       ELSE UNDEF

\* C6: for each invocation parameter the value the run uses follows the
\* precedence flag, environment variable, cache, prompt: a value from a flag
\* or an environment variable is never overridden by a cached value, and
\* cached values are used only in a run where no flag was given.
C6_Precedence == PrecedenceOfUidKeyPath /\ PrecedenceOfProject

\* What the code does for the project id: the cached value comes before the
\* environment variable.
C6_ProjectCacheBeforeEnv ==
  admin.apps = 1 =>
     admin.options.projectId =
       IF Truthy(flags.projectId) THEN flags.projectId
       ELSE IF Loaded /\ Truthy(Get(cache, "projectId")) THEN Get(cache, "projectId")
       ELSE env.FIREBASE_PROJECT_ID

----------------------------------------------------------------------------
(* C7 *)

EnvNamesCredential ==
  ~Truthy(flags.serviceAccount) /\ Truthy(env.GOOGLE_APPLICATION_CREDENTIALS)

\* C7: in a run with no explicit credential path and
\* GOOGLE_APPLICATION_CREDENTIALS set, the credential is built by the SDK's
\* default-credential mechanism and the program inspects no credential file
\* itself; the .firebase scan runs only when neither is available.
C7_EnvUsesDefaultCredential ==
  /\ EnvNamesCredential =>
       /\ inspected = {}
       /\ admin.apps = 1 => admin.options.credential = "applicationDefault"
       /\ (Ended /\ failure.step = "init") =>
            failure.message = "Firebase Admin SDK rejected the default credential"
  /\ (inspected \cap ScanReads(firebaseDir) # {} \/ Asked(PathQuestion)) =>
       ~Truthy(FlagOrEnvPath)

\* What the code does: the variable's value is passed to initAdmin as an
\* explicit path, so the file is checked and loaded by the program.
C7_EnvTakenAsExplicitPath ==
  (EnvNamesCredential /\ pc \in {"mint", "awaitMint", "fetch", "awaitFetch", "END"}
     /\ Truthy(uid)) =>
     /\ inspected = {env.GOOGLE_APPLICATION_CREDENTIALS}
     /\ admin.apps = 1 =>
          /\ admin.options.credential = "cert"
          /\ admin.options.path = env.GOOGLE_APPLICATION_CREDENTIALS

----------------------------------------------------------------------------
(* C8 *)

\* The run is past the credential step and neither a flag, the environment
\* nor a loaded cache gave a path, so the scan decided.
ScanDecided ==
  /\ pc \in {"initAdmin", "mint", "awaitMint", "fetch", "awaitFetch"}
       \/ (Ended /\ Truthy(uid))
  /\ ~Truthy(FlagOrEnvPath)
  /\ ~(Loaded /\ Truthy(Get(cache, "serviceAccount")))

Parsed(i) == Parse(firebaseDir.files[i].text)

\* The places of the files that end in .json, parse to an object and have
\* both fields.
WithBothFields ==
  {i \in 1..Len(firebaseDir.files) :
     /\ endsWithJson(firebaseDir.files[i])
     /\ Parsed(i).kind = "object"
     /\ Parsed(i).obj["client_email"] # UNDEF
     /\ Parsed(i).obj["private_key"] # UNDEF}

\* The same, with both fields non-empty.
WithBothFieldsNonEmpty ==
  {i \in WithBothFields :
     Parsed(i).obj["client_email"] # "" /\ Parsed(i).obj["private_key"] # ""}

First(S) == CHOOSE i \in S : \A j \in S : i <= j

PathOf(i) == join(candidateDir, firebaseDir.files[i].name)

AutoDetected(path) == Printed(<< "log", "Auto-detected service account:", path >>)

AnyAutoDetected ==
  \E i \in 1..Len(console) :
     Len(console[i]) = 3 /\ console[i][2] = "Auto-detected service account:"

\* The outcome of the scan when the files at the places in `qualifying` are
\* the ones that count.
ScanSelectsFirstOf(qualifying) ==
  ScanDecided =>
     IF firebaseDir.exists /\ qualifying # {}
       THEN /\ AutoDetected(PathOf(First(qualifying)))
            /\ serviceAccount = PathOf(First(qualifying))
            /\ ~Asked(PathQuestion)
       ELSE /\ ~AnyAutoDetected
            /\ Asked(PathQuestion)
            /\ serviceAccount \in (PathAnswers \ {""}) \cup {UNDEF}
            /\ (Ended /\ serviceAccount = UNDEF) =>
                 exitCode = ExitInitFailed /\ failure.step = "init"

\* C8 as stated: the scan selects the first file in listing order whose name
\* ends in .json and whose parsed content has both a client_email and a
\* private_key field; when none qualifies the run prompts for a path or
\* fails initialization.
C8_FirstFileWithBothFields == ScanSelectsFirstOf(WithBothFields)

\* C8, amended: the scan selects the first file in listing order whose name
\* ends in .json and whose parsed content has a non-empty client_email and a
\* non-empty private_key; a file that lacks either field, holds it empty or
\* does not parse is skipped; when none qualifies nothing is selected and
\* the run prompts for a path, failing initialization when none is given.
C8_FirstFileWithBothFieldsNonEmpty == ScanSelectsFirstOf(WithBothFieldsNonEmpty)

C8_Witness ==
  /\ ScanDecided /\ firebaseDir.exists
  /\ Cardinality(WithBothFieldsNonEmpty) >= 2
  /\ First(WithBothFieldsNonEmpty) > 1
  /\ serviceAccount = PathOf(First(WithBothFieldsNonEmpty))
  /\ admin.apps = 1 /\ admin.options.path = serviceAccount

----------------------------------------------------------------------------
(* C9 *)

\* A read that follows a write that reached the file.
ReadAfterWrite == pc = "read" /\ writes # << >> /\ writes[1].written

Stripped == {"idToken", "refreshToken"}

RunSavesSetupOnly ==
  \A i \in 1..Len(writes) : OwnFields(writes[i].obj) \subseteq SetupFields

----------------------------------------------------------------------------
(* C10 *)

\* The file holds the encoding of an object.
EncodesObject(file) ==
  /\ file.exists /\ file.readable
  /\ Parse(B64Decode(Trim(file.data))).kind = "object"

LoadOffered ==
  \E i \in 1..Len(prompts) : prompts[i] \notin {UidQuestion, KeyQuestion, PathQuestion}

\* C10: whatever the cache file holds, the read does not throw; it returns
\* the saved object when the file is a well-formed encoding of one, and null
\* when the file is missing, empty, malformed or truncated, and the run then
\* makes no offer to load it.
C10_ReadGivesObjectOrNull ==
  pc # "start" =>
     /\ cache.kind # "throw"
     /\ IF EncodesObject(cacheAtStart)
          THEN cache = Parse(B64Decode(Trim(cacheAtStart.data)))
          ELSE cache = JNull /\ pc # "askLoad" /\ ~LoadOffered

\* What the code does: null exactly when the file is missing, unreadable,
\* empty or does not decode to JSON; otherwise the decoded value, whatever
\* it is, and the offer to load whenever that value is truthy.
C10_ReadGivesDecodedValueOrNull ==
  pc # "start" =>
     /\ cache.kind # "throw"
     /\ LET decoded == Parse(B64Decode(Trim(cacheAtStart.data))) IN
        cache = IF cacheAtStart.exists /\ cacheAtStart.readable
                   /\ decoded.kind # "throw"
                  THEN decoded ELSE JNull
     /\ (~TruthyJ(cache) \/ anyFlag) => (pc # "askLoad" /\ ~LoadOffered)

----------------------------------------------------------------------------
(* C11 *)

\* The run has passed every step before the save: the token was minted, the
\* endpoint answered with success, and the result was printed.
MintedAndExchanged ==
  /\ admin.apps = 1 /\ mintCalls # << >> /\ customToken # UNDEF
  /\ Answered /\ ok(response)
  /\ console[Len(console)] = << "log", StringifyBody(response.data) >>

\* C11: the cache file is written only as the last step of a run, after
\* minting and the exchange have both succeeded: writeCache is called at most
\* once, and only in a run that has ended with exit code 0; a run that ends
\* with exit code 1, 2 or 3 (no identifier, initialization failure, minting
\* failure, missing API key, exchange failure) made no call of writeCache and
\* leaves the cache file exactly as it was when the run started.
C11_CacheWrittenOnlyAfterSuccess ==
  /\ (writes # << >> \/ cacheFile # cacheAtStart) =>
        /\ Ended /\ exitCode = 0 /\ failure = NoFailure
        /\ MintedAndExchanged
        /\ Len(writes) = 1
  /\ (Ended /\ exitCode \in {ExitNoUid, ExitInitFailed, ExitRunFailed}) =>
        /\ writes = << >>
        /\ cacheFile = cacheAtStart

\* A run that got as far as a refused exchange, over a cache file that exists
\* and could have been overwritten.
C11_Witness ==
  /\ Ended /\ exitCode = ExitRunFailed
  /\ failure.step = "exchange" /\ Answered /\ ~ok(response)
  /\ cacheAtStart.exists /\ ~cacheAtStart.locked
  /\ cacheFile = cacheAtStart /\ writes = << >>

====
